---- MODULE Spec2Model ----
(***************************************************************************)
(* nimbus.io web director: the proxy() entry point, Router.route and the   *)
(* supervised database layer of src/web_director/web_director_main.py,     *)
(* run by cooperative gevent tasks.  A step of the model is what one task  *)
(* does between two suspension points (a contended lock, a database round  *)
(* trip, a reconnect, a sleep, the init_complete wait).                    *)
(* With it: the Reader of src/data_reader/reader.py, the AMQPArchiver of   *)
(* src/diyapi_web_server/amqp_archiver.py and the GreenletDealerClient of  *)
(* src/tools/greenlet_dealer_client.py, each under a specification of its  *)
(* own.                                                                    *)
(***************************************************************************)
EXTENDS Integers, Sequences, FiniteSets, TLC

VARIABLES
    init_complete,      \* Router.init_complete (Event)
    conn,               \* Router.conn: 0 is None, n > 0 the n-th connection made
    dblock,             \* Router.dblock (RLock): [owner, count]
    known_clusters,     \* Router.known_clusters: cluster_id -> heap reference
    heap,               \* the info dicts made by _db_cluster_info, by reference
    known_collections,  \* Router.known_collections (LRUCache), oldest first
    mgmt_hosts,         \* Router.management_api_request_dest_hosts (deque)
    pc,                 \* per task: where the proxy() call is suspended
    data,               \* per task: the buffer proxy() was called with
    wrapper,            \* per task: the supervised method the task is inside
    retries,            \* per task: `retries` of the innermost supervised call
    conn_id,            \* per task: `conn_id` of the innermost supervised call
    cluster_id,         \* per task: `cluster_id` of _hosts_for_collection
    result,             \* per task: what proxy() returned
    init_pc,            \* the task spawned by init_setup
    issued,             \* history: queries sent to the database, per query
    failed,             \* history: queries that raised an exception, per query
    met,                \* history, per task: the exceptions the queries of its call raised
    fwd_log,            \* history: the collection forwards, in order of return
    cache_writes,       \* history: the writes to the caches, and the lock at each
    calls_left,         \* proxy() calls still to be made
    faults_left         \* database errors still to be injected

VARIABLES
    debug               \* __debug__: FALSE when python runs with -O

VARIABLES
    value_files,        \* the repository: value_file_id -> length, None if missing
    reader_args,        \* the arguments of the Reader method called
    gen_pc,             \* the generator of generate_all_sequence_rows
    sequence_rows,      \* its sequence_rows
    skip_count,         \* its skip_count
    next_row,           \* its place in sequence_rows[skip_count:]
    open_value_files,   \* the keys of its open_value_files
    closed_value_files, \* the value files it has closed
    yielded,            \* history: the items it has yielded
    retrieved           \* what retrieve_one_sequence returned or raised

VARIABLES
    archive_pc,         \* where archive_entire is
    caller,             \* who called archive_entire
    timeout,            \* its timeout argument
    replies,            \* the greenlets of its `replies`, per segment
    previous_size,      \* previous_size of the reply of each segment's node
    archive_result,     \* what archive_entire returned
    archive_error,      \* the exception that left archive_entire
    response,           \* what Application.archive answered
    completion_order    \* history: the segments in the order their replies came

VARIABLES
    send_queue,         \* GreenletDealerClient._send_queue
    delivery_queues,    \* _delivery_queues: message-id -> queue, 0 if none
    queues,             \* the contents of every delivery queue made
    socket_sent,        \* history: the messages sent on the socket
    run_pc,             \* where _run is blocked
    received,           \* history: the last message _receive_message returned
    uuid_count,         \* the message-ids made by uuid.uuid1()
    replies_left        \* messages the server may still send

router_vars == <<init_complete, conn, dblock, known_clusters, heap, known_collections,
          mgmt_hosts, pc, data, wrapper, retries, conn_id, cluster_id, result,
          init_pc, issued, failed, met, fwd_log, cache_writes, calls_left,
          faults_left>>

reader_vars == <<value_files, reader_args, gen_pc, sequence_rows, skip_count,
                 next_row, open_value_files, closed_value_files, yielded,
                 retrieved>>

archiver_vars == <<archive_pc, caller, timeout, replies, previous_size,
                   archive_result, archive_error, response, completion_order>>

dealer_vars == <<send_queue, delivery_queues, queues, socket_sent, run_pc,
                 received, uuid_count, replies_left>>

----------------------------------------------------------------------------
(* Bounds of the model *)

NumTasks == 2
MaxCalls == 2
MaxFaults == 1
PadSlack == 1
SeqCalls == 6
ProxyCalls == 2
MaxBlockOffset == 11
MaxSequenceNum == 3
NumSegments == 5
MaxRequests == 2
MaxReplies == 2

Tasks == 1..NumTasks

----------------------------------------------------------------------------
(* Python values *)

\* F(v), with v evaluated once
With(v, F(_)) == CHOOSE r \in {F(x) : x \in {v}} : TRUE

None == <<>>
Some(v) == <<v>>

\* Python truth of an optional integer (None and 0 are false)
Truthy(v) == v # None /\ v[1] # 0

\* as Rotate1, but one step to the left: rotate(-1)
RotateLeft1(q) == IF Len(q) = 0 THEN q ELSE Append(Tail(q), q[1])

\* deque.rotate(1): one step to the right, the last element becomes the first
Rotate1(q) == IF Len(q) = 0 THEN q ELSE <<q[Len(q)]>> \o SubSeq(q, 1, Len(q) - 1)

\* str.endswith
EndsWith(s, suffix) ==
    /\ Len(suffix) <= Len(s)
    /\ SubSeq(s, Len(s) - Len(suffix) + 1, Len(s)) = suffix

DigitValue(c) ==
    CASE c = "0" -> 0 [] c = "1" -> 1 [] c = "2" -> 2 [] c = "3" -> 3
      [] c = "4" -> 4 [] c = "5" -> 5 [] c = "6" -> 6 [] c = "7" -> 7
      [] c = "8" -> 8 [] c = "9" -> 9

RECURSIVE DigitsValue(_)
DigitsValue(s) ==
    IF Len(s) = 0 THEN 0
    ELSE 10 * DigitsValue(SubSeq(s, 1, Len(s) - 1)) + DigitValue(s[Len(s)])

\* int(port) raises ValueError on the empty string
IntRaises(s) == Len(s) = 0

----------------------------------------------------------------------------
(* Environment and configuration *)

RETRY_DELAY == 0
COLLECTION_CACHE_SIZE == 500000
HOST_HEADER_LIMIT == 4096
NIMBUSIO_WEB_SERVER_PORT == 8088
NIMBUS_IO_SERVICE_DOMAIN == <<"s", "v">>
NIMBUSIO_MANAGEMENT_API_REQUEST_DEST == <<"m1", "m2">>

----------------------------------------------------------------------------
(* The central database: nimbusio_central.collection and nimbusio_central.node *)

\* deletion_time 0 is NULL
collection_table ==
    { [name |-> <<"a">>, cluster_id |-> 7, deletion_time |-> 0],
      [name |-> <<"b">>, cluster_id |-> 7, deletion_time |-> 0],
      [name |-> <<"d">>, cluster_id |-> 8, deletion_time |-> 5],
      [name |-> <<"e">>, cluster_id |-> 9, deletion_time |-> 0] }

node_table ==
    { [cluster_id |-> 7, name |-> "node3", hostname |-> "n3", node_number_in_cluster |-> 3],
      [cluster_id |-> 7, name |-> "node1", hostname |-> "n1", node_number_in_cluster |-> 1],
      [cluster_id |-> 7, name |-> "node2", hostname |-> "n2", node_number_in_cluster |-> 2],
      [cluster_id |-> 8, name |-> "node4", hostname |-> "n4", node_number_in_cluster |-> 1] }

ClusterIds == {r.cluster_id : r \in collection_table}

\* "select cluster_id from nimbusio_central.collection where name=%s", then
\* `if row: return row[0]`; no row gives None
SelectClusterForCollection(collection) ==
    LET rows == {r \in collection_table : r.name = collection}
    IN IF rows = {} THEN None ELSE Some((CHOOSE r \in rows : TRUE).cluster_id)

RECURSIVE OrderByNodeNumber(_)
OrderByNodeNumber(rows) ==
    IF rows = {} THEN <<>>
    ELSE LET first == CHOOSE r \in rows :
                 \A q \in rows : r.node_number_in_cluster <= q.node_number_in_cluster
         IN <<first>> \o OrderByNodeNumber(rows \ {first})

\* "select name, hostname, node_number_in_cluster from nimbusio_central.node
\*  where cluster_id=%s order by node_number_in_cluster"
SelectNodes(cid) ==
    LET rows == OrderByNodeNumber({r \in node_table : r.cluster_id = cid})
    IN [i \in 1..Len(rows) |->
            <<rows[i].name, rows[i].hostname, rows[i].node_number_in_cluster>>]

\* info = dict(rows = list(rows), hosts = deque([r[1] for r in rows]))
ClusterInfo(cid) ==
    LET rows == SelectNodes(cid)
    IN [rows |-> rows, hosts |-> [i \in 1..Len(rows) |-> rows[i][2]]]

----------------------------------------------------------------------------
(* tools.LRUCache: a bounded map, least recently used entry first *)

LRUKeys(cache) == {cache[i][1] : i \in 1..Len(cache)}

LRUContains(cache, key) == key \in LRUKeys(cache)

LRUIndex(cache, key) == CHOOSE i \in 1..Len(cache) : cache[i][1] = key

LRUValue(cache, key) == cache[LRUIndex(cache, key)][2]

LRUGet(cache, key, default) ==
    IF LRUContains(cache, key) THEN LRUValue(cache, key) ELSE default

LRURemove(cache, key) ==
    LET keep == {i \in 1..Len(cache) : cache[i][1] # key}
        F[i \in 0..Len(cache)] ==
            IF i = 0 THEN <<>>
            ELSE IF i \in keep THEN Append(F[i - 1], cache[i]) ELSE F[i - 1]
    IN F[Len(cache)]

\* cache[key]: the entry becomes the most recently used
LRUTouch(cache, key) ==
    Append(LRURemove(cache, key), <<key, LRUValue(cache, key)>>)

\* cache[key] = value: the least recently used entry is dropped when full
LRUSet(cache, key, value) ==
    LET put == Append(LRURemove(cache, key), <<key, value>>)
    IN IF Len(put) > COLLECTION_CACHE_SIZE THEN Tail(put) ELSE put

----------------------------------------------------------------------------
(* The buffers handed to proxy(): `pad` bytes that hold no Host header and  *)
(* the Host header lines, each "Host: " hostname [":" port] "\r\n"           *)

Header(hostname, port) == [hostname |-> hostname, port |-> port]

HeaderLen(h) ==
    6 + Len(h.hostname) + (IF Len(h.port) = 0 THEN 0 ELSE 1 + Len(h.port)) + 2

RECURSIVE HeadersLen(_)
HeadersLen(hs) ==
    IF Len(hs) = 0 THEN 0 ELSE HeaderLen(Head(hs)) + HeadersLen(Tail(hs))

\* len(data)
DataLen(d) == d.pad + HeadersLen(d.headers)

\* _re_host.findall(data): one (hostname, ":port", port) per Host header, a
\* group that did not take part is the empty string
FindAll(d) ==
    [i \in 1..Len(d.headers) |->
        <<d.headers[i].hostname,
          IF Len(d.headers[i].port) = 0 THEN <<>> ELSE <<":">> \o d.headers[i].port,
          d.headers[i].port>>]

Port80 == <<"8", "0">>
NoPort == <<>>

Hostnames ==
    { <<"a", ".", "s", "v">>,      \* collection a of cluster 7
      <<"b", ".", "s", "v">>,      \* collection b of cluster 7
      <<"d", ".", "s", "v">>,      \* soft-deleted collection d of cluster 8
      <<"e", ".", "s", "v">>,      \* collection e of cluster 9, which has no node
      <<"x", ".", "s", "v">>,      \* no such collection
      <<"s", "v">>,                \* the service domain itself
      <<"e", ".", "c">> }          \* another domain

Pads == (HOST_HEADER_LIMIT - PadSlack)..(HOST_HEADER_LIMIT + PadSlack)

Buffers ==
    {[pad |-> n, headers |-> <<>>] : n \in {0} \cup Pads}
    \cup {[pad |-> 0, headers |-> <<Header(h, Port80)>>] : h \in Hostnames}
    \cup {[pad |-> 0, headers |-> <<Header(<<"a", ".", "s", "v">>, NoPort)>>],
          [pad |-> HOST_HEADER_LIMIT,
           headers |-> <<Header(<<"e", ".", "c">>, Port80),
                         Header(<<"b", ".", "s", "v">>, Port80)>>]}

\* the buffers that reach Router.route
RoutedBuffers == {d \in Buffers : d.pad = 0 /\ Len(d.headers) = 1 /\ d.headers[1].port # NoPort}

NoBuffer == [pad |-> 0, headers |-> <<>>]

----------------------------------------------------------------------------
(* Verdicts *)

NoVerdict == [kind |-> "pending", target |-> "", port |-> 0, code |-> 0, reason |-> ""]

\* proxy returns None
ReturnNone == [kind |-> "none", target |-> "", port |-> 0, code |-> 0, reason |-> ""]

\* dict(remote = target) of the management branch: the configured string as it is
RemoteRaw(target) ==
    [kind |-> "remote", target |-> target, port |-> 0, code |-> 0, reason |-> ""]

\* dict(remote = "%s:%d" % (target, self.dest_port))
Remote(target, port) ==
    [kind |-> "remote", target |-> target, port |-> port, code |-> 0, reason |-> ""]

\* Router._reject: dict(close = "%d %s" % (code, reason))
Reject(code, reason) ==
    [kind |-> "close", target |-> "", port |-> 0, code |-> code, reason |-> reason]

\* dict(close=True)
CloseTrue == [kind |-> "close", target |-> "", port |-> 0, code |-> 0, reason |-> "True"]

\* the call ended with an exception that left proxy()
Raised(what) == [kind |-> "raised", target |-> "", port |-> 0, code |-> 0, reason |-> what]

----------------------------------------------------------------------------
(* The program state as one record, so that the code between two           *)
(* suspension points is one function from state to state                    *)

State ==
    [init_complete |-> init_complete, conn |-> conn, dblock |-> dblock,
     known_clusters |-> known_clusters, heap |-> heap,
     known_collections |-> known_collections, mgmt_hosts |-> mgmt_hosts,
     pc |-> pc, data |-> data, wrapper |-> wrapper, retries |-> retries,
     conn_id |-> conn_id, cluster_id |-> cluster_id, result |-> result,
     init_pc |-> init_pc, issued |-> issued, failed |-> failed, met |-> met,
     fwd_log |-> fwd_log, cache_writes |-> cache_writes,
     calls_left |-> calls_left, faults_left |-> faults_left]

Becomes(s0) == \E s \in {s0} :
    /\ init_complete' = s.init_complete
    /\ conn' = s.conn
    /\ dblock' = s.dblock
    /\ known_clusters' = s.known_clusters
    /\ heap' = s.heap
    /\ known_collections' = s.known_collections
    /\ mgmt_hosts' = s.mgmt_hosts
    /\ pc' = s.pc
    /\ data' = s.data
    /\ wrapper' = s.wrapper
    /\ retries' = s.retries
    /\ conn_id' = s.conn_id
    /\ cluster_id' = s.cluster_id
    /\ result' = s.result
    /\ init_pc' = s.init_pc
    /\ issued' = s.issued
    /\ failed' = s.failed
    /\ met' = s.met
    /\ fwd_log' = s.fwd_log
    /\ cache_writes' = s.cache_writes
    /\ calls_left' = s.calls_left
    /\ faults_left' = s.faults_left
    /\ UNCHANGED <<debug, value_files, reader_args, gen_pc, sequence_rows,
                   skip_count, next_row, open_value_files, closed_value_files,
                   yielded, retrieved>>
    /\ UNCHANGED <<archive_pc, caller, timeout, replies, previous_size,
                   archive_result, archive_error, response, completion_order>>
    /\ UNCHANGED <<send_queue, delivery_queues, queues, socket_sent, run_pc,
                   received, uuid_count, replies_left>>


Unlocked == [owner |-> 0, count |-> 0]

\* no lock at all: whoever asks gets it
CanAcquireAlways(s, t) == TRUE

\* a lock that is not reentrant: free only
CanAcquireFree(s, t) == s.dblock.count = 0

\* RLock: free, or held by the task itself
CanAcquire(s, t) == s.dblock.count = 0 \/ s.dblock.owner = t

Acquire(s0, t) == With(s0, LAMBDA s : [s EXCEPT !.dblock = [owner |-> t, count |-> s.dblock.count + 1]])

Release(s0, t) == With(s0, LAMBDA s :
    [s EXCEPT !.dblock =
        IF s.dblock.count <= 1 THEN Unlocked
        ELSE [owner |-> s.dblock.owner, count |-> s.dblock.count - 1]])

\* task t writes to a cache: what the lock is at that moment
Written(s0, t, cache) == With(s0, LAMBDA s :
    [s EXCEPT !.cache_writes = @ \cup
        {[cache |-> cache,
          locked |-> s.dblock.count > 0 /\ s.dblock.owner = t,
          free |-> s.dblock.count = 0]}])

\* hostname, _, port = matches.pop(): the last match
LastMatch(d) == FindAll(d)[Len(FindAll(d))]
Hostname(s, t) == LastMatch(s.data[t])[1]

\* Router._parse_collection
parse_collection(hostname) ==
    LET offset == Len(NIMBUS_IO_SERVICE_DOMAIN) + 1
    IN SubSeq(hostname, 1, Len(hostname) - offset)

Collection(s, t) == parse_collection(Hostname(s, t))

\* the queries of the router, as keys of `issued` and `failed`
CollectionNames ==
    {parse_collection(h) : h \in {g \in Hostnames :
        EndsWith(g, NIMBUS_IO_SERVICE_DOMAIN) /\ g # NIMBUS_IO_SERVICE_DOMAIN}}
CollectionQuery(collection) == <<"collection", collection, 0>>
NodeQuery(cid) == <<"node", <<>>, cid>>
Queries ==
    {CollectionQuery(c) : c \in CollectionNames} \cup {NodeQuery(c) : c \in ClusterIds}

----------------------------------------------------------------------------
(* Router.route, lines 232-245: the verdict once the hosts are known.      *)
(* `hosts` is None or the reference of the cached info whose deque is used  *)

\* proxy() returns v to its caller
Return(s0, t, v) == With(s0, LAMBDA s :
    [s EXCEPT !.pc[t] = "done", !.result[t] = v, !.wrapper[t] = "none",
              !.retries[t] = 0, !.conn_id[t] = 0, !.cluster_id[t] = None])

\* as route_hosts, but the rotation is made on a copy of the cached deque
route_hosts_copy(s0, t, hosts) == With(s0, LAMBDA s :
    IF hosts # None /\ Len(s.heap[hosts[1]].hosts) > 0
    THEN LET target == Rotate1(s.heap[hosts[1]].hosts)[1]
         IN Return([s EXCEPT !.fwd_log[s.cluster_id[t][1]] = Append(@, target)],
                   t, Remote(target, NIMBUSIO_WEB_SERVER_PORT))
    ELSE [s EXCEPT !.pc[t] = "retry_delay"])

\* as route_hosts, but the rotated deque goes into a new info dict that takes
\* the place of the cached one
route_hosts_replace(s0, t, hosts) == With(s0, LAMBDA s :
    IF hosts # None /\ Len(s.heap[hosts[1]].hosts) > 0
    THEN LET rotated == Rotate1(s.heap[hosts[1]].hosts)
             cid == s.cluster_id[t][1]
         IN Return([s EXCEPT !.heap = Append(@, [@[hosts[1]] EXCEPT
                                                   !.hosts = rotated]),
                             !.known_clusters[cid] = Len(s.heap) + 1,
                             !.fwd_log[cid] = Append(@, rotated[1])],
                   t, Remote(rotated[1], NIMBUSIO_WEB_SERVER_PORT))
    ELSE [s EXCEPT !.pc[t] = "retry_delay"])

route_hosts(s0, t, hosts) == With(s0, LAMBDA s :
    IF hosts # None /\ Len(s.heap[hosts[1]].hosts) > 0
    THEN \* hosts.rotate(1); target = hosts[0]
         LET ref == hosts[1]
             rotated == Rotate1(s.heap[ref].hosts)
             target == rotated[1]
             cid == s.cluster_id[t][1]
         IN Return([s EXCEPT !.heap[ref].hosts = rotated,
                             !.fwd_log[cid] = Append(@, target)],
                   t, Remote(target, NIMBUSIO_WEB_SERVER_PORT))
    ELSE \* `elif hosts is None: self._reject(404, ...)` drops the verdict it
         \* builds; both cases go on to gevent.sleep(RETRY_DELAY)
         [s EXCEPT !.pc[t] = "retry_delay"])

\* line 245, after the sleep
route_retry_later(s0, t) == With(s0, LAMBDA s : Return(s, t, Reject(500, "Retry later")))

----------------------------------------------------------------------------
(* Router._db_cluster_info under _supervise_db_interaction, and             *)
(* Router._cluster_info                                                     *)

\* _cluster_info lines 194-195 and _hosts_for_collection line 149, entered
\* when the supervised call has left its `with lock`
cluster_info_store(s0, t, ref) == With(s0, LAMBDA s :
    LET cid == s.cluster_id[t][1]
    IN route_hosts([Written(s, t, "known_clusters") EXCEPT
                             !.known_clusters = (cid :> ref) @@ @,
                             !.wrapper[t] = "none"],
                   t, Some(ref)))

\* as db_cluster_info_locked, but cache_check_func is not called
db_cluster_info_locked_unchecked(s0, t) == With(s0, LAMBDA s :
    [s EXCEPT !.conn_id[t] = s.conn, !.wrapper[t] = "db_cluster_info",
              !.pc[t] = "query",
              !.issued[NodeQuery(s.cluster_id[t][1])] = @ + 1])

\* lines 82-88 for _db_cluster_info: inside `with lock`
db_cluster_info_locked(s0, t) == With(s0, LAMBDA s :
    LET cid == s.cluster_id[t][1]
        s1 == [s EXCEPT !.conn_id[t] = s.conn, !.wrapper[t] = "db_cluster_info"]
    IN IF cid \in DOMAIN s1.known_clusters
       THEN \* cache_check_func: known_clusters.get(cluster_id, None) is a dict
            cluster_info_store(Release(s1, t), t, s1.known_clusters[cid])
       ELSE \* self.conn.fetch_all_rows(...)
            [s1 EXCEPT !.pc[t] = "query",
                       !.issued[NodeQuery(cid)] = @ + 1])

\* line 81 for _db_cluster_info: `with lock`
db_cluster_info_enter(s0, t) == With(s0, LAMBDA s :
    IF CanAcquire(s, t)
    THEN db_cluster_info_locked(Acquire(s, t), t)
    ELSE [s EXCEPT !.pc[t] = "acquire", !.wrapper[t] = "db_cluster_info"])

\* the query returned its rows: lines 181-184, then the wrapper's break and
\* return, and _cluster_info goes on
db_cluster_info_answer(s0, t) == With(s0, LAMBDA s :
    LET cid == s.cluster_id[t][1]
        ref == Len(s.heap) + 1
    IN cluster_info_store(
           Release([s EXCEPT !.heap = Append(@, ClusterInfo(cid))], t), t, ref))

\* Router._cluster_info lines 188-192
cluster_info(s0, t) == With(s0, LAMBDA s :
    LET cid == s.cluster_id[t][1]
    IN IF cid \in DOMAIN s.known_clusters
       THEN route_hosts(s, t, Some(s.known_clusters[cid]))
       ELSE db_cluster_info_enter([s EXCEPT !.retries[t] = 0], t))

\* Router._hosts_for_collection lines 146-149
hosts_for_collection(s0, t, cid) == With(s0, LAMBDA s :
    LET s1 == [s EXCEPT !.cluster_id[t] = cid, !.wrapper[t] = "none"]
    IN IF cid = None THEN route_hosts(s1, t, None) ELSE cluster_info(s1, t))

----------------------------------------------------------------------------
(* Router._db_cluster_for_collection and Router._cluster_for_collection,    *)
(* both under _supervise_db_interaction: the second calls the first while   *)
(* it holds the lock                                                        *)

\* the outer wrapper's break, the end of its `with lock`, `return result`
cluster_for_collection_return(s0, t, res) == With(s0, LAMBDA s :
    hosts_for_collection(Release(s, t), t, res))

\* lines 169-170, entered when the inner supervised call has left its `with lock`
cluster_for_collection_store(s0, t, res) == With(s0, LAMBDA s :
    cluster_for_collection_return(
        [Written(s, t, "known_collections") EXCEPT
            !.known_collections = LRUSet(@, Collection(s, t), res)], t, res))

\* lines 82-88 for _db_cluster_for_collection: inside `with lock`
db_cluster_for_collection_locked(s0, t) == With(s0, LAMBDA s :
    LET s1 == [s EXCEPT !.conn_id[t] = s.conn,
                        !.wrapper[t] = "db_cluster_for_collection"]
        \* cache_check_func: known_collections.get(collection, None)
        cached == LRUGet(s1.known_collections, Collection(s, t), None)
    IN IF Truthy(cached)
       THEN cluster_for_collection_store(Release(s1, t), t, cached)
       ELSE \* self.conn.fetch_one_row(...)
            [s1 EXCEPT !.pc[t] = "query",
                       !.issued[CollectionQuery(Collection(s, t))] = @ + 1])

\* line 81 for _db_cluster_for_collection: `with lock`
db_cluster_for_collection_enter(s0, t) == With(s0, LAMBDA s :
    IF CanAcquire(s, t)
    THEN db_cluster_for_collection_locked(Acquire(s, t), t)
    ELSE [s EXCEPT !.pc[t] = "acquire", !.wrapper[t] = "db_cluster_for_collection"])

\* the query returned: lines 158-159, then the inner wrapper's break and return
db_cluster_for_collection_answer(s0, t) == With(s0, LAMBDA s :
    cluster_for_collection_store(
        Release(s, t), t, SelectClusterForCollection(Collection(s, t))))

\* as cluster_for_collection_locked, but without the lookup of lines 164-165
cluster_for_collection_locked_unchecked(s0, t) == With(s0, LAMBDA s :
    db_cluster_for_collection_enter([s EXCEPT !.retries[t] = 0], t))

\* lines 164-168, inside the outer `with lock`
cluster_for_collection_locked(s0, t) == With(s0, LAMBDA s :
    LET collection == Collection(s, t)
    IN IF LRUContains(s.known_collections, collection)
       THEN cluster_for_collection_return(
                [s EXCEPT !.known_collections = LRUTouch(@, collection)],
                t, LRUValue(s.known_collections, collection))
       ELSE db_cluster_for_collection_enter([s EXCEPT !.retries[t] = 0], t))

\* line 81 for _cluster_for_collection: `with lock`
cluster_for_collection_enter(s0, t) == With(s0, LAMBDA s :
    IF CanAcquire(s, t)
    THEN cluster_for_collection_locked(Acquire(s, t), t)
    ELSE [s EXCEPT !.pc[t] = "acquire", !.wrapper[t] = "cluster_for_collection"])

----------------------------------------------------------------------------
(* _supervise_db_interaction: the lock is there, the error path, the retry *)

\* a task that waited at `with lock` goes on inside it
supervise_locked(s0, t) == With(s0, LAMBDA s :
    LET s1 == [Acquire(s, t) EXCEPT !.pc[t] = "run"]
    IN CASE s.wrapper[t] = "cluster_for_collection" ->
                cluster_for_collection_locked(s1, t)
         [] s.wrapper[t] = "db_cluster_for_collection" ->
                db_cluster_for_collection_locked(s1, t)
         [] s.wrapper[t] = "db_cluster_info" ->
                db_cluster_info_locked(s1, t))

\* the query of the task in flight
QueryOf(s, t) ==
    IF s.wrapper[t] = "db_cluster_info"
    THEN NodeQuery(s.cluster_id[t][1])
    ELSE CollectionQuery(Collection(s, t))

\* the bound method returned its result, lines 88-89 and 108
supervise_answer(s0, t) == With(s0, LAMBDA s :
    LET s1 == [s EXCEPT !.pc[t] = "run"]
    IN IF s.wrapper[t] = "db_cluster_info"
       THEN db_cluster_info_answer(s1, t)
       ELSE db_cluster_for_collection_answer(s1, t))

\* any other exception of the query leaves every `with lock` on its way up
\* to proxy(), lines 271-274: gevent.sleep(RETRY_DELAY)
supervise_other_error(s0, t) == With(s0, LAMBDA s :
    LET s1 == [s EXCEPT !.pc[t] = "error_delay",
                        !.failed[QueryOf(s, t)] = @ + 1,
                        !.faults_left = @ - 1]
    IN IF s.wrapper[t] = "db_cluster_info"
       THEN Release(s1, t)
       ELSE Release(Release(s1, t), t))

\* a wrapper without the except clause: the OperationalError goes up to proxy()
supervise_operational_error_unhandled(s0, t) == With(s0, LAMBDA s :
    supervise_other_error(s, t))

\* an except clause outside `with lock`: the lock is let go before the
\* connection is replaced
supervise_operational_error_released(s0, t) == With(s0, LAMBDA s :
    [s EXCEPT !.pc[t] = "reconnect",
              !.retries[t] = @ + 1,
              !.failed[QueryOf(s, t)] = @ + 1,
              !.faults_left = @ - 1,
              !.dblock = Unlocked])

\* lines 90-105: psycopg2.OperationalError; the connection is closed and
\* retry_central_connection() is under way, the lock still held
supervise_operational_error(s0, t) == With(s0, LAMBDA s :
    [s EXCEPT !.pc[t] = "reconnect",
              !.retries[t] = @ + 1,
              !.failed[QueryOf(s, t)] = @ + 1,
              !.faults_left = @ - 1])

\* lines 106-107 and the end of `with lock`; then line 80, time.sleep(1.0)
supervise_reconnected(s0, t) == With(s0, LAMBDA s :
    Release([s EXCEPT !.conn = @ + 1,
                      !.conn_id[t] = s.conn + 1,
                      !.pc[t] = "sleep"], t))

\* lines 77-81 after the sleep: `with lock` again
supervise_retry(s0, t) == With(s0, LAMBDA s :
    LET s1 == [s EXCEPT !.pc[t] = "run"]
    IN IF s.wrapper[t] = "db_cluster_info"
       THEN db_cluster_info_enter(s1, t)
       ELSE db_cluster_for_collection_enter(s1, t))

\* line 275
proxy_error_return(s0, t) == With(s0, LAMBDA s : Return(s, t, CloseTrue))

----------------------------------------------------------------------------
(* Router.route and proxy() *)

\* Router.route lines 214-232, after init_complete.wait()
route_ready(s0, t) == With(s0, LAMBDA s :
    LET hostname == Hostname(s, t)
    IN IF ~EndsWith(hostname, NIMBUS_IO_SERVICE_DOMAIN)
       THEN Return(s, t, Reject(404, "Not found"))
       ELSE IF hostname = NIMBUS_IO_SERVICE_DOMAIN
       THEN \* management_api_request_dest_hosts.rotate(1); target = [0]
            LET rotated == Rotate1(s.mgmt_hosts)
            IN Return([s EXCEPT !.mgmt_hosts = rotated], t, RemoteRaw(rotated[1]))
       ELSE \* _parse_collection never returns None: line 230 is not reached
            cluster_for_collection_enter([s EXCEPT !.retries[t] = 0], t))

\* as route, but without the wait of line 212
route_unguarded(s0, t) == With(s0, LAMBDA s : route_ready(s, t))

\* Router.route line 212: self.init_complete.wait()
route(s0, t) == With(s0, LAMBDA s :
    IF s.init_complete THEN route_ready(s, t) ELSE [s EXCEPT !.pc[t] = "wait_init"])

\* as proxy, but with `len(data) >= 4096` at line 276
proxy_at_limit(s0, t, d) == With(s0, LAMBDA s :
    LET s1 == [s EXCEPT !.data[t] = d, !.result[t] = NoVerdict, !.met[t] = {}]
    IN IF Len(FindAll(d)) > 0
       THEN IF IntRaises(LastMatch(d)[3])
            THEN Return(s1, t, Raised("ValueError"))
            ELSE route(s1, t)
       ELSE IF DataLen(d) >= HOST_HEADER_LIMIT
       THEN Return(s1, t, CloseTrue)
       ELSE Return(s1, t, ReturnNone))

\* proxy(data), lines 263-281
proxy(s0, t, d) == With(s0, LAMBDA s :
    LET s1 == [s EXCEPT !.data[t] = d, !.result[t] = NoVerdict, !.met[t] = {}]
    IN IF Len(FindAll(d)) > 0
       THEN \* port = int(port) is outside the try
            IF IntRaises(LastMatch(d)[3])
            THEN Return(s1, t, Raised("ValueError"))
            ELSE route(s1, t)
       ELSE IF DataLen(d) > HOST_HEADER_LIMIT
       THEN Return(s1, t, CloseTrue)
       ELSE Return(s1, t, ReturnNone))

\* Router.init lines 134-136
router_init(s0) == With(s0, LAMBDA s :
    [s EXCEPT !.conn = @ + 1, !.init_complete = TRUE, !.init_pc = "done"])

----------------------------------------------------------------------------
(* The actions: one per resumption of a task *)

\* tproxy calls proxy(data) for a connection
Call(t, d) ==
    /\ pc[t] \in {"idle", "done"}
    /\ calls_left > 0
    /\ Becomes(proxy([State EXCEPT !.calls_left = @ - 1], t, d))

\* the task spawned by init_setup has its connection
InitDone ==
    /\ init_pc = "spawned"
    /\ Becomes(router_init(State))

\* init_complete.wait() returns
WaitDone(t) ==
    /\ pc[t] = "wait_init"
    /\ init_complete
    /\ Becomes(route_ready(State, t))

\* a task blocked at `with lock` gets the lock
LockAcquired(t) ==
    /\ pc[t] = "acquire"
    /\ CanAcquire(State, t)
    /\ Becomes(supervise_locked(State, t))

\* the database answers the query
QueryAnswer(t) ==
    /\ pc[t] = "query"
    /\ Becomes(supervise_answer(State, t))

\* the query raises psycopg2.OperationalError
QueryFault(t) ==
    /\ pc[t] = "query"
    /\ faults_left > 0
    /\ Becomes(supervise_operational_error(
           [State EXCEPT !.met[t] = @ \cup {"OperationalError"}], t))

\* the query raises another exception
QueryError(t) ==
    /\ pc[t] = "query"
    /\ faults_left > 0
    /\ Becomes(supervise_other_error(
           [State EXCEPT !.met[t] = @ \cup {"Exception"}], t))

\* retry_central_connection() returns the new connection
Reconnected(t) ==
    /\ pc[t] = "reconnect"
    /\ Becomes(supervise_reconnected(State, t))

\* time.sleep(1.0) is over
SleepDone(t) ==
    /\ pc[t] = "sleep"
    /\ Becomes(supervise_retry(State, t))

\* gevent.sleep(RETRY_DELAY) of route is over
RetryDelayDone(t) ==
    /\ pc[t] = "retry_delay"
    /\ Becomes(route_retry_later(State, t))

\* gevent.sleep(RETRY_DELAY) of proxy's except clause is over
ErrorDelayDone(t) ==
    /\ pc[t] = "error_delay"
    /\ Becomes(proxy_error_return(State, t))

----------------------------------------------------------------------------
(* src/data_reader/reader.py: the segment and sequence rows of the node's  *)
(* database, the value files of the repository, and the Reader.  A byte    *)
(* string read from a value file is the extent it was read from.           *)

\* tools.data_definitions.encoded_block_slice_size
encoded_block_slice_size == 256

\* nimbusio_node.segment; at most one row per key, handoff and status
segment_table ==
    { [id |-> 1, unified_id |-> 1, conjoined_part |-> 0, segment_num |-> 1,
       handoff_node_id |-> None, status |-> "F"],
      [id |-> 2, unified_id |-> 1, conjoined_part |-> 0, segment_num |-> 1,
       handoff_node_id |-> Some(5), status |-> "F"],
      [id |-> 3, unified_id |-> 1, conjoined_part |-> 0, segment_num |-> 2,
       handoff_node_id |-> None, status |-> "A"],
      [id |-> 4, unified_id |-> 2, conjoined_part |-> 0, segment_num |-> 1,
       handoff_node_id |-> Some(6), status |-> "F"],
      [id |-> 5, unified_id |-> 2, conjoined_part |-> 1, segment_num |-> 1,
       handoff_node_id |-> None, status |-> "F"],
      [id |-> 6, unified_id |-> 2, conjoined_part |-> 0, segment_num |-> 2,
       handoff_node_id |-> Some(5), status |-> "C"] }

SequenceRow(sid, n, f, o, z) ==
    [segment_id |-> sid, sequence_num |-> n, value_file_id |-> f,
     value_file_offset |-> o, size |-> z]

\* nimbusio_node.segment_sequence
segment_sequence_table ==
    { SequenceRow(1, 0, 1, 0, 1024), SequenceRow(1, 1, 1, 1024, 1024),
      SequenceRow(1, 2, 2, 0, 512),
      SequenceRow(2, 0, 3, 0, 300),
      SequenceRow(3, 0, 2, 512, 256),
      SequenceRow(4, 0, 3, 300, 256), SequenceRow(4, 1, 3, 556, 100),
      SequenceRow(5, 0, 2, 768, 100), SequenceRow(5, 1, 1, 2048, 700),
      SequenceRow(6, 0, 3, 656, 10) }

NoRow == SequenceRow(0, 0, 0, 0, 0)

ValueFileIds == {r.value_file_id : r \in segment_sequence_table}

\* the bytes of a value file from `offset`, `length` of them
Extent(f, o, n) == [file |-> f, offset |-> o, length |-> n]
NoBytes == Extent(0, 0, 0)

\* the repository as the writer left it: the length of every value file
IntactFiles ==
    [f \in ValueFileIds |->
        LET ends == {r.value_file_offset + r.size :
                        r \in {q \in segment_sequence_table : q.value_file_id = f}}
        IN Some(CHOOSE e \in ends : \A x \in ends : x <= e)]

\* a value file that lost its tail, a value file that is gone
Repositories ==
    { IntactFiles,
      [IntactFiles EXCEPT ![1] = Some(1500)],
      [IntactFiles EXCEPT ![2] = None] }

\* the arguments of the Reader's calls
UnifiedIds == {1, 2}
ConjoinedParts == {0, 1}
SegmentNums == {1, 2}
HandoffNodeIds == {None, Some(5), Some(6)}
BlockOffsets == 0..MaxBlockOffset
SequenceNums == 0..MaxSequenceNum

\* `order by sequence_num asc`
RECURSIVE OrderBySequenceNum(_)
OrderBySequenceNum(rows) ==
    IF rows = {} THEN <<>>
    ELSE LET first == CHOOSE r \in rows :
                        \A q \in rows : r.sequence_num <= q.sequence_num
         IN <<first>> \o OrderBySequenceNum(rows \ {first})

\* the subquery of lines 83-88: handoff_node_id is null and status = 'F'
SegmentIds(u, cp, sn) ==
    {s.id : s \in {x \in segment_table :
        /\ x.unified_id = u /\ x.conjoined_part = cp /\ x.segment_num = sn
        /\ x.handoff_node_id = None
        /\ x.status = "F"}}

\* the subquery of lines 113-118: handoff_node_id = h and status = 'F'
HandoffSegmentIds(u, cp, sn, h) ==
    {s.id : s \in {x \in segment_table :
        /\ x.unified_id = u /\ x.conjoined_part = cp /\ x.segment_num = sn
        /\ x.handoff_node_id = h
        /\ x.status = "F"}}

\* the subquery without its handoff condition
AnySegmentIds(u, cp, sn) ==
    {s.id : s \in {x \in segment_table :
        /\ x.unified_id = u /\ x.conjoined_part = cp /\ x.segment_num = sn
        /\ x.status = "F"}}

all_sequence_rows_for_any_segment(u, cp, sn) ==
    OrderBySequenceNum({r \in segment_sequence_table :
                            r.segment_id \in AnySegmentIds(u, cp, sn)})

all_sequence_rows_for_segment(u, cp, sn) ==
    OrderBySequenceNum({r \in segment_sequence_table :
                            r.segment_id \in SegmentIds(u, cp, sn)})

all_sequence_rows_for_handoff_segment(u, cp, sn, h) ==
    OrderBySequenceNum({r \in segment_sequence_table :
                            r.segment_id \in HandoffSegmentIds(u, cp, sn, h)})

\* lines 45-66: the row of one sequence, a set of at most one row
sequence_row(u, cp, sn, n) ==
    {r \in segment_sequence_table :
        r.segment_id \in SegmentIds(u, cp, sn) /\ r.sequence_num = n}

\* lines 219-221
blocks_in_sequence(size) ==
    (size \div encoded_block_slice_size)
        + (IF size % encoded_block_slice_size # 0 THEN 1 ELSE 0)

\* lines 218-234, from the i-th row on: what the loop leaves in skip_count
\* and offset_residue
RECURSIVE count_blocks(_, _, _, _, _)
count_blocks(rows, i, block_count, skipped, block_offset) ==
    IF i > Len(rows)
    THEN [skip_count |-> skipped, offset_residue |-> 0]
    ELSE LET count == block_count + blocks_in_sequence(rows[i].size)
         IN IF count < block_offset
            THEN count_blocks(rows, i + 1, count, skipped + 1, block_offset)
            ELSE [skip_count |-> skipped,
                  offset_residue |->
                      IF block_offset > 0
                      THEN IF skipped = 0
                           THEN block_offset
                           ELSE count - block_offset
                      ELSE 0]

\* a slice that forgets its start
slice_all(rows, skipped) == rows

\* sequence_rows[skip_count:]
slice_from(rows, skipped) ==
    [i \in 1..(Len(rows) - skipped) |-> rows[i + skipped]]

\* a read that loses the last byte
file_read_less(files, f, o, n) ==
    LET have == IF files[f][1] > o THEN files[f][1] - o ELSE 0
        got == IF have < n THEN have ELSE n
    IN Extent(f, o, IF got > 0 THEN got - 1 ELSE 0)

\* value_file.seek(o); value_file.read(n): at most n bytes, what the file has
file_read(files, f, o, n) ==
    LET have == IF files[f][1] > o THEN files[f][1] - o ELSE 0
    IN Extent(f, o, IF have < n THEN have ELSE n)

\* the items of the stream
PreambleItem(remaining, skipped, residue) ==
    [kind |-> "preamble", counts |-> <<remaining, skipped, residue>>,
     row |-> NoRow, bytes |-> NoBytes]
SequenceItem(row, bytes) ==
    [kind |-> "sequence", counts |-> <<0, 0, 0>>, row |-> row, bytes |-> bytes]

NoArgs ==
    [unified_id |-> 0, conjoined_part |-> 0, segment_num |-> 0,
     handoff_node_id |-> None, block_offset |-> 0, sequence_num |-> 0]

NotRetrieved == [kind |-> "none", row |-> NoRow, bytes |-> NoBytes]

\* a Reader nobody has called
ReaderIdle ==
    /\ reader_args = NoArgs
    /\ gen_pc = "none"
    /\ sequence_rows = <<>>
    /\ skip_count = 0
    /\ next_row = 0
    /\ open_value_files = {}
    /\ closed_value_files = {}
    /\ yielded = <<>>
    /\ retrieved = NotRetrieved

\* the call makes the generator; nothing of its body has run
GenerateAllSequenceRows(u, cp, sn, h, b) ==
    /\ gen_pc = "none"
    /\ retrieved = NotRetrieved
    /\ reader_args' = [unified_id |-> u, conjoined_part |-> cp,
                       segment_num |-> sn, handoff_node_id |-> h,
                       block_offset |-> b, sequence_num |-> 0]
    /\ gen_pc' = "created"
    /\ UNCHANGED <<value_files, sequence_rows, skip_count, next_row,
                   open_value_files, closed_value_files, yielded, retrieved>>
    /\ UNCHANGED <<router_vars, archiver_vars, dealer_vars, debug>>

\* the first next(): lines 196-237, up to the yield of the counts
GeneratorStart ==
    /\ gen_pc = "created"
    /\ LET a == reader_args
           rows == IF a.handoff_node_id = None
                   THEN all_sequence_rows_for_segment(
                            a.unified_id, a.conjoined_part, a.segment_num)
                   ELSE all_sequence_rows_for_handoff_segment(
                            a.unified_id, a.conjoined_part, a.segment_num,
                            a.handoff_node_id)
           c == count_blocks(rows, 1, 0, 0, a.block_offset)
       IN /\ sequence_rows' = rows
          /\ skip_count' = c.skip_count
          /\ yielded' = <<PreambleItem(Len(rows) - c.skip_count,
                                        c.skip_count, c.offset_residue)>>
    /\ next_row' = 1
    /\ gen_pc' = "suspended"
    /\ UNCHANGED <<value_files, reader_args, open_value_files,
                   closed_value_files, retrieved>>
    /\ UNCHANGED <<router_vars, archiver_vars, dealer_vars, debug>>

\* a later next(): lines 239-251 for one row.  open() of a missing file
\* raises IOError, a short read fails the assert (unless python runs -O)
GeneratorNext ==
    /\ gen_pc = "suspended"
    /\ next_row <= Len(slice_from(sequence_rows, skip_count))
    /\ LET row == slice_from(sequence_rows, skip_count)[next_row]
           f == row.value_file_id
           encoded_segment ==
               file_read(value_files, f, row.value_file_offset, row.size)
       IN IF f \notin open_value_files /\ value_files[f] = None
          THEN /\ gen_pc' = "raised"
               /\ UNCHANGED <<open_value_files, yielded, next_row>>
          ELSE /\ open_value_files' = open_value_files \cup {f}
               /\ IF debug /\ encoded_segment.length # row.size
                  THEN /\ gen_pc' = "raised"
                       /\ UNCHANGED <<yielded, next_row>>
                  ELSE /\ yielded' = Append(yielded,
                                        SequenceItem(row, encoded_segment))
                       /\ next_row' = next_row + 1
                       /\ gen_pc' = "suspended"
    /\ UNCHANGED <<value_files, reader_args, sequence_rows, skip_count,
                   closed_value_files, retrieved>>
    /\ UNCHANGED <<router_vars, archiver_vars, dealer_vars, debug>>

\* the next() after the last row: lines 253-254, then StopIteration
GeneratorExhausted ==
    /\ gen_pc = "suspended"
    /\ next_row > Len(slice_from(sequence_rows, skip_count))
    /\ closed_value_files' = open_value_files
    /\ gen_pc' = "exhausted"
    /\ UNCHANGED <<value_files, reader_args, sequence_rows, skip_count,
                   next_row, open_value_files, yielded, retrieved>>
    /\ UNCHANGED <<router_vars, archiver_vars, dealer_vars, debug>>

\* the consumer gives the stream up: close() raises GeneratorExit at the
\* yield the generator is suspended at, and no line of the body handles it
GeneratorClose ==
    /\ gen_pc \in {"created", "suspended"}
    /\ gen_pc' = "closed"
    /\ UNCHANGED <<value_files, reader_args, sequence_rows, skip_count,
                   next_row, open_value_files, closed_value_files, yielded,
                   retrieved>>
    /\ UNCHANGED <<router_vars, archiver_vars, dealer_vars, debug>>

\* the interpreter frees the generator's frame at a time of its choosing, if
\* nothing refers to it any more; the file objects of open_value_files
\* (line 196) go with it
GeneratorCollected ==
    /\ gen_pc \in {"raised", "closed"}
    /\ closed_value_files # open_value_files
    /\ closed_value_files' = open_value_files
    /\ UNCHANGED <<value_files, reader_args, gen_pc, sequence_rows, skip_count,
                   next_row, open_value_files, yielded, retrieved>>
    /\ UNCHANGED <<router_vars, archiver_vars, dealer_vars, debug>>

\* lines 150-183
RetrieveOneSequence(u, cp, sn, n) ==
    /\ gen_pc = "none"
    /\ retrieved = NotRetrieved
    /\ reader_args' = [unified_id |-> u, conjoined_part |-> cp,
                       segment_num |-> sn, handoff_node_id |-> None,
                       block_offset |-> 0, sequence_num |-> n]
    /\ LET found == sequence_row(u, cp, sn, n)
       IN IF found = {}
          THEN retrieved' = [NotRetrieved EXCEPT !.kind = "ReaderError"]
          ELSE LET row == CHOOSE r \in found : TRUE
               IN IF value_files[row.value_file_id] = None
                  THEN retrieved' = [NotRetrieved EXCEPT !.kind = "IOError"]
                  ELSE retrieved' =
                         [kind |-> "return", row |-> row,
                          bytes |-> file_read(value_files, row.value_file_id,
                                        row.value_file_offset, row.size)]
    /\ UNCHANGED <<value_files, gen_pc, sequence_rows, skip_count, next_row,
                   open_value_files, closed_value_files, yielded>>
    /\ UNCHANGED <<router_vars, archiver_vars, dealer_vars, debug>>

----------------------------------------------------------------------------
(* src/diyapi_web_server/amqp_archiver.py: AMQPArchiver.archive_entire,     *)
(* one message and one reply-waiting greenlet per segment, and its caller  *)
(* Application.archive of src/diyapi_web_server/application.py             *)

Segments == 1..NumSegments

\* a greenlet spawned at line 49: ready() and value
Waiting == [ready |-> FALSE, value |-> None]
Ready(v) == [ready |-> TRUE, value |-> Some(v)]

\* what the nodes answer: previous_size of the reply to each segment
PreviousSizes ==
    { [i \in Segments |-> 100], [i \in Segments |-> 10 * i] }

\* all(reply.ready() for (message, reply) in replies)
all_ready(rs) == \A i \in 1..Len(rs) : rs[i].ready

\* the sum of the different values only
RECURSIVE sum_of_set(_)
sum_of_set(S) ==
    IF S = {} THEN 0
    ELSE LET x == CHOOSE y \in S : TRUE IN x + sum_of_set(S \ {x})

sum_distinct_previous_size(rs) ==
    sum_of_set({rs[i].value[1] : i \in 1..Len(rs)})

\* line 54: sum(reply.value.previous_size for (message, reply) in replies)
RECURSIVE sum_previous_size(_)
sum_previous_size(rs) ==
    IF rs = <<>> THEN 0
    ELSE Head(rs).value[1] + sum_previous_size(Tail(rs))

\* a join that settles for the replies of all segments but two
join_outcome_quorum(rs, dbg) ==
    LET got == SelectSeq(rs, LAMBDA r : r.ready)
    IN IF Len(got) >= Len(rs) - 2
       THEN [pc |-> "returned", result |-> Some(sum_previous_size(got)),
             error |-> "none"]
       ELSE [pc |-> "raised", result |-> None, error |-> "AssertionError"]

\* lines 53-54 once joinall is back: the assert (skipped by python -O), then
\* the sum, which raises AttributeError on the None value of a greenlet that
\* is not ready
join_outcome(rs, dbg) ==
    IF all_ready(rs)
    THEN [pc |-> "returned", result |-> Some(sum_previous_size(rs)),
          error |-> "none"]
    ELSE [pc |-> "raised", result |-> None,
          error |-> IF dbg THEN "AssertionError" ELSE "AttributeError"]

\* an archiver nobody has called
ArchiverIdle ==
    /\ archive_pc = "idle"
    /\ caller = "none"
    /\ timeout = None
    /\ replies = <<>>
    /\ archive_result = None
    /\ archive_error = "none"
    /\ response = "none"
    /\ completion_order = <<>>

\* lines 29-51: the messages are sent in segment order, a greenlet waits for
\* each reply, and joinall waits for the greenlets
archive_entire(who, t) ==
    /\ archive_pc = "idle"
    /\ caller' = who
    /\ timeout' = t
    /\ replies' = [i \in Segments |-> Waiting]
    /\ archive_pc' = "joining"
    /\ UNCHANGED <<previous_size, archive_result, archive_error, response,
                   completion_order>>

\* a caller of archive_entire that gives a timeout
ArchiveEntire ==
    /\ archive_entire("direct", Some(1))
    /\ UNCHANGED <<router_vars, reader_vars, dealer_vars, debug>>

\* application.py line 68: archive_entire without a timeout
ApplicationArchive ==
    /\ archive_entire("application", None)
    /\ UNCHANGED <<router_vars, reader_vars, dealer_vars, debug>>

\* the reply to segment i is there: reply_queue.get returns in its greenlet
ReplyGet(i) ==
    /\ archive_pc # "idle"
    /\ ~replies[i].ready
    /\ replies' = [replies EXCEPT ![i] = Ready(previous_size[i])]
    /\ completion_order' = Append(completion_order, i)
    /\ UNCHANGED <<archive_pc, caller, timeout, previous_size, archive_result,
                   archive_error, response>>
    /\ UNCHANGED <<router_vars, reader_vars, dealer_vars, debug>>

\* what archive_entire's end does to its caller: Application.archive answers
\* 'OK' after a return and handles no failure (line 67)
Finish(o) ==
    /\ archive_pc' = o.pc
    /\ archive_result' = o.result
    /\ archive_error' = o.error
    /\ response' = IF caller # "application" THEN "none"
                   ELSE IF o.pc = "returned" THEN "OK" ELSE o.error
    /\ UNCHANGED <<caller, timeout, replies, previous_size, completion_order>>
    /\ UNCHANGED <<router_vars, reader_vars, dealer_vars, debug>>

\* joinall returns because every greenlet is ready
JoinAll ==
    /\ archive_pc = "joining"
    /\ all_ready(replies)
    /\ Finish(join_outcome(replies, debug))

\* joinall returns because the timeout expired
JoinTimeout ==
    /\ archive_pc = "joining"
    /\ timeout # None
    /\ ~all_ready(replies)
    /\ Finish(join_outcome(replies, debug))

----------------------------------------------------------------------------
(* src/tools/greenlet_dealer_client.py: GreenletDealerClient.  A delivery  *)
(* queue is known by the number of the request it was made for.            *)

\* message-ids: the ones callers bring, the ones uuid.uuid1() makes
CallerIds == {1, 2}
UuidBase == 10
MessageIds == CallerIds \cup {UuidBase + k : k \in 1..MaxRequests}

\* a message: control is {'message-id': id} or has no message-id
Message(id) == [message_id |-> id]
NoMessage == Message(Some(0))

\* whatever the server may send
Replies == {Message(None)} \cup {Message(Some(m)) : m \in MessageIds}

\* dict.get in the place of dict.pop: the queue stays registered
delivery_queues_keep(dq, m) == dq

\* line 80: self._delivery_queues.pop(message-id)
delivery_queues_pop(dq, m) == [dq EXCEPT ![m] = 0]

\* len(self._delivery_queues)
delivery_queues_len(dq) == Cardinality({m \in DOMAIN dq : dq[m] # 0})

DealerStart(n) ==
    /\ send_queue = <<>>
    /\ delivery_queues = [m \in MessageIds |-> 0]
    /\ queues = <<>>
    /\ socket_sent = <<>>
    /\ run_pc = "send"
    /\ received = NoMessage
    /\ uuid_count = 0
    /\ replies_left = n

\* lines 40-55; `id` is the caller's message-id, None when it brings none
QueueMessageForSend(id) ==
    /\ Len(queues) < MaxRequests
    /\ LET m == IF id = None THEN UuidBase + uuid_count + 1 ELSE id[1]
       IN /\ uuid_count' = IF id = None THEN uuid_count + 1 ELSE uuid_count
          /\ queues' = Append(queues, <<>>)
          /\ delivery_queues' = [delivery_queues EXCEPT ![m] = Len(queues) + 1]
          /\ send_queue' = Append(send_queue, Message(Some(m)))
    /\ UNCHANGED <<socket_sent, run_pc, received, replies_left>>
    /\ UNCHANGED <<router_vars, reader_vars, archiver_vars, debug>>

\* lines 61-62: one message of the send queue goes out
RunSend ==
    /\ run_pc = "send"
    /\ send_queue # <<>>
    /\ socket_sent' = Append(socket_sent, Head(send_queue))
    /\ send_queue' = Tail(send_queue)
    /\ UNCHANGED <<delivery_queues, queues, run_pc, received, uuid_count,
                   replies_left>>
    /\ UNCHANGED <<router_vars, reader_vars, archiver_vars, debug>>

\* lines 61-71 with the send queue empty: wait for a message to send when no
\* reply is expected, for a reply otherwise
RunSent ==
    /\ run_pc = "send"
    /\ send_queue = <<>>
    /\ run_pc' = IF delivery_queues_len(delivery_queues) = 0
                 THEN "wait_send" ELSE "receive"
    /\ UNCHANGED <<send_queue, delivery_queues, queues, socket_sent, received,
                   uuid_count, replies_left>>
    /\ UNCHANGED <<router_vars, reader_vars, archiver_vars, debug>>

\* lines 67-68: the message waited for is there and goes out
RunWaitSend ==
    /\ run_pc = "wait_send"
    /\ send_queue # <<>>
    /\ socket_sent' = Append(socket_sent, Head(send_queue))
    /\ send_queue' = Tail(send_queue)
    /\ run_pc' = "receive"
    /\ UNCHANGED <<delivery_queues, queues, received, uuid_count, replies_left>>
    /\ UNCHANGED <<router_vars, reader_vars, archiver_vars, debug>>

\* lines 71-88: a message of the server is there
RunReceive(message) ==
    /\ run_pc = "receive"
    /\ replies_left > 0
    /\ replies_left' = replies_left - 1
    /\ received' = message
    /\ run_pc' = "send"
    /\ IF message.message_id = None
       THEN UNCHANGED <<delivery_queues, queues>>
       ELSE LET m == message.message_id[1]
                delivery_queue == delivery_queues[m]
            IN IF delivery_queue = 0
               THEN UNCHANGED <<delivery_queues, queues>>
               ELSE /\ delivery_queues' = delivery_queues_pop(delivery_queues, m)
                    /\ queues' = [queues EXCEPT ![delivery_queue] =
                                                    Append(@, message)]
    /\ UNCHANGED <<send_queue, socket_sent, uuid_count>>
    /\ UNCHANGED <<router_vars, reader_vars, archiver_vars, debug>>

----------------------------------------------------------------------------
vars == <<router_vars, reader_vars, archiver_vars, dealer_vars, debug>>

\* the components a specification leaves alone
ReaderRest == ReaderIdle /\ value_files = IntactFiles
ArchiverRest == ArchiverIdle /\ previous_size = [i \in Segments |-> 100]
DealerRest == DealerStart(0)

----------------------------------------------------------------------------
(* The start of a run with `calls` calls of proxy() and `faults` database  *)
(* errors to come                                                          *)

Start(calls, faults) ==
    /\ init_complete = FALSE
    /\ conn = 0
    /\ dblock = Unlocked
    /\ known_clusters = <<>>
    /\ heap = <<>>
    /\ known_collections = <<>>
    /\ mgmt_hosts = NIMBUSIO_MANAGEMENT_API_REQUEST_DEST
    /\ pc = [t \in Tasks |-> "idle"]
    /\ data = [t \in Tasks |-> NoBuffer]
    /\ wrapper = [t \in Tasks |-> "none"]
    /\ retries = [t \in Tasks |-> 0]
    /\ conn_id = [t \in Tasks |-> 0]
    /\ cluster_id = [t \in Tasks |-> None]
    /\ result = [t \in Tasks |-> NoVerdict]
    /\ init_pc = "spawned"
    /\ issued = [q \in Queries |-> 0]
    /\ failed = [q \in Queries |-> 0]
    /\ met = [t \in Tasks |-> {}]
    /\ fwd_log = [c \in ClusterIds |-> <<>>]
    /\ cache_writes = {}
    /\ calls_left = calls
    /\ faults_left = faults

(* Concurrent connections, a database that may fail *)

Init ==
    /\ Start(MaxCalls, MaxFaults)
    /\ debug = TRUE /\ ReaderRest /\ ArchiverRest /\ DealerRest

Next ==
    \/ \E t \in Tasks : \E d \in RoutedBuffers : Call(t, d)
    \/ InitDone
    \/ \E t \in Tasks : WaitDone(t)
    \/ \E t \in Tasks : LockAcquired(t)
    \/ \E t \in Tasks : QueryAnswer(t)
    \/ \E t \in Tasks : QueryFault(t)
    \/ \E t \in Tasks : QueryError(t)
    \/ \E t \in Tasks : Reconnected(t)
    \/ \E t \in Tasks : SleepDone(t)
    \/ \E t \in Tasks : RetryDelayDone(t)
    \/ \E t \in Tasks : ErrorDelayDone(t)

Spec == Init /\ [][Next]_vars

\* gevent runs every task that can run; an exception of the database is
\* never owed, so the database answers once the errors to come are spent
Fairness ==
    /\ WF_vars(InitDone)
    /\ \A t \in Tasks :
        /\ WF_vars(WaitDone(t))
        /\ WF_vars(LockAcquired(t))
        /\ WF_vars(QueryAnswer(t))
        /\ WF_vars(Reconnected(t))
        /\ WF_vars(SleepDone(t))
        /\ WF_vars(RetryDelayDone(t))
        /\ WF_vars(ErrorDelayDone(t))

LiveSpec == Init /\ [][Next]_vars /\ Fairness

(* Concurrent connections and a database that fails more than once, so    *)
(* that both tasks can meet an OperationalError                            *)

FaultInit ==
    /\ Start(MaxCalls, MaxFaults + 1)
    /\ debug = TRUE /\ ReaderRest /\ ArchiverRest /\ DealerRest

FaultSpec == FaultInit /\ [][Next]_vars

(* One connection after the other, a database that answers: the lock is    *)
(* never contended and no query fails                                      *)

SeqInit ==
    /\ Start(SeqCalls, 0)
    /\ debug = TRUE /\ ReaderRest /\ ArchiverRest /\ DealerRest

SeqNext ==
    \/ \E d \in RoutedBuffers : Call(1, d)
    \/ InitDone
    \/ WaitDone(1)
    \/ QueryAnswer(1)
    \/ RetryDelayDone(1)

SeqSpec == SeqInit /\ [][SeqNext]_vars

(* proxy() on every buffer, one call at a time, a database that may fail   *)

ProxyInit ==
    /\ Start(ProxyCalls, MaxFaults)
    /\ debug = TRUE /\ ReaderRest /\ ArchiverRest /\ DealerRest

ProxyNext ==
    \/ \E d \in Buffers : Call(1, d)
    \/ InitDone
    \/ WaitDone(1)
    \/ QueryAnswer(1)
    \/ QueryFault(1)
    \/ QueryError(1)
    \/ Reconnected(1)
    \/ SleepDone(1)
    \/ RetryDelayDone(1)
    \/ ErrorDelayDone(1)

ProxySpec == ProxyInit /\ [][ProxyNext]_vars

(* One call of the Reader on a repository that may have lost bytes         *)

ReaderInit ==
    /\ Start(0, 0)
    /\ debug \in BOOLEAN
    /\ ReaderIdle /\ value_files \in Repositories
    /\ ArchiverRest /\ DealerRest

ReaderNext ==
    \/ \E u \in UnifiedIds : \E cp \in ConjoinedParts : \E sn \in SegmentNums :
       \E h \in HandoffNodeIds : \E b \in BlockOffsets :
            GenerateAllSequenceRows(u, cp, sn, h, b)
    \/ GeneratorStart
    \/ GeneratorNext
    \/ GeneratorExhausted
    \/ GeneratorClose
    \/ GeneratorCollected
    \/ \E u \in UnifiedIds : \E cp \in ConjoinedParts : \E sn \in SegmentNums :
       \E n \in SequenceNums :
            RetrieveOneSequence(u, cp, sn, n)

ReaderSpec == ReaderInit /\ [][ReaderNext]_vars

(* One archive_entire; the replies come in any order, or not in time       *)

ArchiverInit ==
    /\ Start(0, 0)
    /\ debug \in BOOLEAN
    /\ ArchiverIdle /\ previous_size \in PreviousSizes
    /\ ReaderRest /\ DealerRest

ArchiverNext ==
    \/ ArchiveEntire
    \/ ApplicationArchive
    \/ \E i \in Segments : ReplyGet(i)
    \/ JoinAll
    \/ JoinTimeout

ArchiverSpec == ArchiverInit /\ [][ArchiverNext]_vars

(* The dealer client, its callers, and a server that sends what it likes   *)

DealerInit ==
    /\ Start(0, 0)
    /\ debug = TRUE
    /\ DealerStart(MaxReplies)
    /\ ReaderRest /\ ArchiverRest

DealerNext ==
    \/ \E id \in {None} \cup {Some(m) : m \in CallerIds} : QueueMessageForSend(id)
    \/ RunSend
    \/ RunSent
    \/ RunWaitSend
    \/ \E message \in Replies : RunReceive(message)

DealerSpec == DealerInit /\ [][DealerNext]_vars

\* gevent runs the loop of _run whenever it can go on; no caller owes a
\* request and the server owes no reply
DealerFairness ==
    /\ WF_vars(RunSend)
    /\ WF_vars(RunSent)
    /\ WF_vars(RunWaitSend)

DealerLiveSpec == DealerInit /\ [][DealerNext]_vars /\ DealerFairness

----------------------------------------------------------------------------
(* What the claims speak of *)

Done(t) == pc[t] = "done"

\* the call of task t reached Router.route
RouteCalled(t) ==
    /\ Len(FindAll(data[t])) > 0
    /\ ~IntRaises(LastMatch(data[t])[3])

\* the call of task t is for a collection: route went past lines 214-225
ForCollection(t) ==
    /\ RouteCalled(t)
    /\ EndsWith(LastMatch(data[t])[1], <<"s", "v">>)
    /\ LastMatch(data[t])[1] # <<"s", "v">>

\* the collection name of the hostname: what precedes ".sv"
NameOf(t) ==
    LET h == LastMatch(data[t])[1] IN [i \in 1..(Len(h) - 3) |-> h[i]]

RowsOf(name) == {r \in collection_table : r.name = name}
LiveRowsOf(name) == {r \in RowsOf(name) : r.deletion_time = 0}
HostsOf(cid) == {r.hostname : r \in {n \in node_table : n.cluster_id = cid}}

Occurrences(log, h, i, j) == Cardinality({n \in i..j : log[n] = h})

----------------------------------------------------------------------------
\* C1: stampede suppression.  However many tasks call route for the same
\* hostname while the caches are cold, the database answers each backing query
\* (the cluster_id of a collection, the nodes of a cluster) at most once: the
\* runs of a query exceed those the database failed by at most one.  A call
\* that forwards has had both its queries answered exactly once in total.
C1_StampedeSuppression ==
    /\ \A q \in Queries : issued[q] - failed[q] <= 1
    /\ \A t \in Tasks :
        (Done(t) /\ ForCollection(t) /\ result[t].kind = "remote") =>
            \E r \in RowsOf(NameOf(t)) :
                /\ issued[CollectionQuery(NameOf(t))]
                       - failed[CollectionQuery(NameOf(t))] = 1
                /\ issued[NodeQuery(r.cluster_id)] - failed[NodeQuery(r.cluster_id)] = 1

\* C1 witness: a task has forwarded hostname h after one run of each query
\* while another task, which called route for h meanwhile, waits for the lock
C1_Witness ==
    \E t, u \in Tasks :
        /\ t # u
        /\ Done(t) /\ ForCollection(t) /\ result[t].kind = "remote"
        /\ pc[u] = "acquire" /\ data[u] = data[t]
        /\ \A q \in Queries : failed[q] = 0
        /\ issued[CollectionQuery(NameOf(t))] = 1

\* C2: a call for a collection the database does not know returns
\* {close: "404 Collection not found"}
C2_UnknownCollection404 ==
    \A t \in Tasks :
        (Done(t) /\ ForCollection(t) /\ RowsOf(NameOf(t)) = {}) =>
            result[t] = Reject(404, "Collection not found")

\* C3: negative caching.  Once the LRU holds None for a collection name, no
\* step sends the collection query of that name to the database again.
C3_NegativeCaching ==
    [][\A c \in CollectionNames :
          (LRUContains(known_collections, c) /\ LRUValue(known_collections, c) = None)
              => issued'[CollectionQuery(c)] = issued[CollectionQuery(c)]]_vars

\* C3 witness: two calls for the unknown collection x have returned after one
\* query
C3_Witness ==
    \E t, u \in Tasks :
        /\ t # u
        /\ Done(t) /\ Done(u)
        /\ ForCollection(t) /\ NameOf(t) = <<"x">> /\ data[u] = data[t]
        /\ result[t].kind = "close" /\ result[u].kind = "close"
        /\ met[t] = {} /\ met[u] = {}
        /\ issued[CollectionQuery(<<"x">>)] = 1

RoundRobin7 == <<"n1", "n2", "n3">>

\* C4 as stated: from cold caches the forwards of cluster 7, whose hosts are
\* n1, n2, n3 in node order, go to n2, n3, n1 and so on
C4_SecondHostFirst ==
    \A i \in 1..Len(fwd_log[7]) : fwd_log[7][i] = RoundRobin7[(i % 3) + 1]

\* C4 amended: from cold caches the forwards of cluster 7 go to n3, n2, n1 and
\* so on: the last host in node order first, then the one before, cyclically,
\* each as host:web_port
C4_LastHostFirst ==
    /\ \A i \in 1..Len(fwd_log[7]) : fwd_log[7][i] = RoundRobin7[3 - ((i - 1) % 3)]
    /\ \A t \in Tasks :
        (Done(t) /\ result[t].kind = "remote" /\ ForCollection(t)) =>
            result[t].port = 8088

\* C4 witness: three forwards of cluster 7 have been made
C4_Witness == Len(fwd_log[7]) = 3 /\ \E t \in Tasks : Done(t) /\ result[t].target = "n1"

\* C5: round-robin fairness.  Any k*m successive forwards of a cluster with
\* m >= 1 hosts go exactly k times to each of its hosts.
C5_RoundRobinFairness ==
    \A cid \in ClusterIds :
        LET m == Cardinality(HostsOf(cid))
            log == fwd_log[cid]
        IN m >= 1 =>
            \A i \in 1..Len(log) : \A j \in i..Len(log) :
                ((j - i + 1) % m = 0) =>
                    \A h \in HostsOf(cid) :
                        Occurrences(log, h, i, j) * m = j - i + 1

\* C5 witness: six forwards of the three hosts of cluster 7
C5_Witness == Len(fwd_log[7]) = 6

\* C6: init gating.  Until the init task has its connection and has set
\* init_complete, no call that reached route has returned and no query has been
\* sent; a call blocked on the event returns once it is set.
C6_InitGating ==
    /\ [](~init_complete =>
            /\ conn = 0
            /\ \A q \in Queries : issued[q] = 0
            /\ \A t \in Tasks :
                \/ pc[t] \in {"idle", "wait_init"}
                \/ Done(t) /\ ~RouteCalled(t))
    /\ \A t \in Tasks : (pc[t] = "wait_init") ~> Done(t)

\* C6 witness: init_complete has just been set while a call waits for it
C6_Witness == init_complete /\ \E t \in Tasks : pc[t] = "wait_init" /\ RouteCalled(t)

\* C7: an OperationalError of a query never reaches the caller.  A call whose
\* queries raised nothing else returns a verdict of route, with the cache
\* holding what the database says; the failed connection is replaced by a new
\* one and the task sleeps before it asks again; the call returns in the
\* end, and a task outside the supervised calls does not hold the lock.
C7_TransientFaultsAbsorbed ==
    /\ [](\A t \in Tasks :
            (Done(t) /\ met[t] = {"OperationalError"}) =>
                /\ result[t].kind \in {"remote", "close"}
                /\ result[t] # CloseTrue
                /\ LRUContains(known_collections, NameOf(t))
                /\ \/ RowsOf(NameOf(t)) = {}
                      /\ LRUValue(known_collections, NameOf(t)) = <<>>
                   \/ \E r \in RowsOf(NameOf(t)) :
                         /\ LRUValue(known_collections, NameOf(t)) = <<r.cluster_id>>
                         /\ result[t].kind = "remote" =>
                                result[t].target \in HostsOf(r.cluster_id))
    /\ [](\A t \in Tasks :
            pc[t] \in {"idle", "done", "wait_init", "retry_delay", "error_delay"}
                => dblock.owner # t)
    /\ [][\A t \in Tasks :
            (pc[t] = "reconnect" /\ pc'[t] # "reconnect") =>
                (pc'[t] = "sleep" /\ conn' > conn)]_vars
    /\ \A t \in Tasks : (pc[t] = "reconnect") ~> (Done(t) /\ dblock.owner # t)

\* C7 witness: a call has forwarded after an OperationalError, on the second
\* connection, and the lock is free
C7_Witness ==
    \E t \in Tasks :
        /\ Done(t) /\ met[t] = {"OperationalError"}
        /\ result[t].kind = "remote"
        /\ conn = 2
        /\ dblock.count = 0

\* C8: for a buffer with a Host header, with or without a port, proxy returns
\* forward, close or null and no exception leaves it
C8_ProxyNeverRaises ==
    \A t \in Tasks :
        (Done(t) /\ Len(data[t].headers) > 0) =>
            result[t].kind \in {"remote", "close", "none"}

\* C9 as stated: without a Host header proxy returns null while
\* len(data) < 4096 and {close} for len(data) >= 4096
C9_CloseAtLimit ==
    \A t \in Tasks :
        (Done(t) /\ Len(data[t].headers) = 0) =>
            IF DataLen(data[t]) < 4096
            THEN result[t].kind = "none"
            ELSE result[t].kind = "close"

\* C9 amended: without a Host header proxy returns null while
\* len(data) <= 4096 and {close} for len(data) > 4096
C9_CloseAboveLimit ==
    \A t \in Tasks :
        (Done(t) /\ Len(data[t].headers) = 0) =>
            IF DataLen(data[t]) <= 4096
            THEN result[t].kind = "none"
            ELSE result[t].kind = "close"

\* C9 witness: a buffer of 4096 bytes without a Host header got null
C9_Witness ==
    \E t \in Tasks :
        /\ Done(t) /\ Len(data[t].headers) = 0
        /\ DataLen(data[t]) = 4096
        /\ result[t].kind = "none"

\* C10: a call for a collection whose only row has deletion_time set is never
\* forwarded
C10_SoftDeletedInvisible ==
    \A t \in Tasks :
        (Done(t) /\ ForCollection(t)
            /\ RowsOf(NameOf(t)) # {} /\ LiveRowsOf(NameOf(t)) = {})
                => result[t].kind # "remote"

----------------------------------------------------------------------------
(* What the claims on the Reader speak of *)

\* the segments the call is for: the key, the handoff node, finalized
CalledSegments ==
    {s \in segment_table :
        /\ s.unified_id = reader_args.unified_id
        /\ s.conjoined_part = reader_args.conjoined_part
        /\ s.segment_num = reader_args.segment_num
        /\ s.handoff_node_id = reader_args.handoff_node_id
        /\ s.status = "F"}

\* their sequences, in sequence_num order
CalledSequences ==
    OrderBySequenceNum({r \in segment_sequence_table :
                            r.segment_id \in {s.id : s \in CalledSegments}})

\* the stream has begun: its first item is there
Streaming == Len(yielded) > 0

\* the stream is over
Terminated == gen_pc \in {"exhausted", "raised", "closed"}

RECURSIVE BlocksBefore(_, _)
BlocksBefore(rows, n) ==
    IF n = 0 THEN 0
    ELSE BlocksBefore(rows, n - 1) + blocks_in_sequence(rows[n].size)

\* the payloads of the stream after the preamble, empty ones left out
YieldedPayload ==
    SelectSeq([k \in 1..(Len(yielded) - 1) |-> yielded[k + 1].bytes],
              LAMBDA e : e.length > 0)

\* what the writer stored for the sequences, empty ones left out
StoredPayload ==
    SelectSeq([k \in 1..Len(CalledSequences) |->
                  Extent(CalledSequences[k].value_file_id,
                         CalledSequences[k].value_file_offset,
                         CalledSequences[k].size)],
              LAMBDA e : e.length > 0)

\* C11: block-offset residue.  For a block_offset B inside the segment the
\* first emitted sequence holds global block B, at block offset_residue when
\* sequences were skipped and at block B when none was; sizes
\* [1024, 1024, 512] with B = 5 give the preamble (2, 1, 1).
C11_ResidueIsBlockIndex ==
    (Streaming /\ reader_args.block_offset
                    < BlocksBefore(CalledSequences, Len(CalledSequences))) =>
        LET counts == yielded[1].counts
            skipped == counts[2]
            B == reader_args.block_offset
            index == IF skipped > 0 THEN counts[3] ELSE B
        IN /\ skipped < Len(CalledSequences)
           /\ BlocksBefore(CalledSequences, skipped) + index = B
           /\ index < blocks_in_sequence(CalledSequences[skipped + 1].size)
           /\ (CalledSegments = {s \in segment_table : s.id = 1} /\ B = 5)
                  => counts = <<2, 1, 1>>

\* C12: sequence completeness.  With handoff_node_id None and block_offset 0
\* the preamble is (total, 0, 0), and the payloads of a stream that ran to
\* its end (on intact value files, or with the assert in force) are together
\* the stored payload of the segment.
C12_SequenceCompleteness ==
    (reader_args.handoff_node_id = None /\ reader_args.block_offset = 0) =>
        /\ Streaming => yielded[1].counts = <<Len(CalledSequences), 0, 0>>
        /\ (gen_pc = "exhausted" /\ (debug \/ value_files = IntactFiles))
              => YieldedPayload = StoredPayload

\* C12 witness: the three sequences of segment 1, from two value files, have
\* been streamed to the end
C12_Witness ==
    /\ gen_pc = "exhausted"
    /\ reader_args.handoff_node_id = None /\ reader_args.block_offset = 0
    /\ Len(yielded) = 4
    /\ open_value_files = {1, 2}

\* C13: preamble accounting and order.  For every block_offset the first
\* item is the preamble (remaining, skipped, residue) with
\* skipped + remaining the number of sequences of the segment; the items
\* after it are the sequences skipped..total-1 in ascending sequence_num
\* order, `remaining` of them when the stream has run to its end.
C13_PreambleAccounting ==
    Streaming =>
        LET counts == yielded[1].counts
            total == Len(CalledSequences)
        IN /\ yielded[1].kind = "preamble"
           /\ counts[1] + counts[2] = total
           /\ counts[1] >= 0 /\ counts[2] >= 0
           /\ Len(yielded) - 1 <= counts[1]
           /\ gen_pc = "exhausted" => Len(yielded) - 1 = counts[1]
           /\ \A k \in 2..Len(yielded) :
                /\ yielded[k].kind = "sequence"
                /\ yielded[k].row = CalledSequences[counts[2] + k - 1]
                /\ k > 2 => yielded[k - 1].row.sequence_num
                                < yielded[k].row.sequence_num

\* C13 witness: a block_offset beyond the last block, every sequence of
\* segment 1 skipped and the stream at its end; and one with a sequence
\* skipped and two streamed
C13_Witness ==
    /\ gen_pc = "exhausted"
    /\ \/ yielded = <<PreambleItem(0, 3, 0)>>
       \/ Len(yielded) = 3 /\ yielded[1].counts[2] = 1

\* C14: whenever the stream is over (exhausted, closed by the consumer, or
\* ended by an exception) every value file it opened has been closed
C14_HandlesReleased == Terminated => open_value_files \subseteq closed_value_files

\* C15: every return of retrieve_one_sequence has len(bytes) = row.size; a
\* short read is an error
C15_NoTruncatedPayload ==
    retrieved.kind = "return" => retrieved.bytes.length = retrieved.row.size

\* C16: handoff isolation.  Every sequence the stream yields belongs to a
\* segment of the key asked for, with status 'F', whose handoff_node_id is
\* the one asked for: None for None, h for h.
C16_HandoffIsolation ==
    \A k \in 2..Len(yielded) :
        \E s \in segment_table :
            /\ s.id = yielded[k].row.segment_id
            /\ s.handoff_node_id = reader_args.handoff_node_id
            /\ s.status = "F"
            /\ s.unified_id = reader_args.unified_id
            /\ s.conjoined_part = reader_args.conjoined_part
            /\ s.segment_num = reader_args.segment_num

\* C16 witness: a key with a segment and a handoff segment, asked for with
\* the handoff node: the sequence of the handoff segment has been yielded
C16_Witness ==
    /\ reader_args.handoff_node_id = Some(5)
    /\ Len(yielded) = 2
    /\ yielded[2].row.segment_id = 2
    /\ \E s \in segment_table :
          /\ s.unified_id = reader_args.unified_id
          /\ s.segment_num = reader_args.segment_num
          /\ s.handoff_node_id = None /\ s.status = "F"

----------------------------------------------------------------------------
(* What the claims on the archiver speak of *)

RECURSIVE SumOver(_, _)
SumOver(f, S) ==
    IF S = {} THEN 0
    ELSE LET i == CHOOSE j \in S : TRUE IN f[i] + SumOver(f, S \ {i})

ReadySegments == {i \in 1..Len(replies) : replies[i].ready}

\* C17: archiver aggregate.  When every reply came in time, archive_entire
\* returns the sum of previous_size over one reply per segment, whatever the
\* order the replies came in; five replies of 100 give 500.
C17_AggregateOfAllReplies ==
    archive_pc = "returned" =>
        /\ Len(replies) = NumSegments
        /\ Len(completion_order) = NumSegments
        /\ \A i \in Segments : \E k \in 1..NumSegments : completion_order[k] = i
        /\ archive_result = Some(SumOver(previous_size, Segments))
        /\ (NumSegments = 5 /\ \A i \in Segments : previous_size[i] = 100)
              => archive_result = Some(500)

\* C17 witness: a return after the replies came last segment first
C17_Witness ==
    /\ archive_pc = "returned"
    /\ \A k \in 1..NumSegments : completion_order[k] = NumSegments + 1 - k
    /\ \E i \in Segments : previous_size[i] # previous_size[1]

\* C18: all or fault.  When joinall is left with a reply missing,
\* archive_entire raises and returns no sum, however many replies are there;
\* a failed archive_entire never has a result.
C18_AllOrFault ==
    /\ [](archive_pc = "raised" =>
            archive_result = None /\ archive_error # "none")
    /\ [][(archive_pc = "joining" /\ ~all_ready(replies)
                /\ archive_pc' # "joining")
            => (archive_pc' = "raised" /\ archive_result' = None)]_vars

\* C18 witness: archive_entire has failed with all replies but two there
C18_Witness ==
    /\ archive_pc = "raised"
    /\ Cardinality(ReadySegments) = NumSegments - 2

\* C19: once archive_entire has returned or failed, none of the greenlets it
\* spawned is still waiting for its reply
C19_NoLeakedWaiters ==
    archive_pc \in {"returned", "raised"} =>
        \A i \in 1..Len(replies) : replies[i].ready

----------------------------------------------------------------------------
(* What the claims on the dealer client speak of *)

\* the step is a return of _receive_message
Receives == replies_left' # replies_left

\* the message received in the step has a message-id with a queue registered
Expected ==
    /\ received'.message_id # None
    /\ delivery_queues[received'.message_id[1]] # 0

\* C20: reply routing.  A delivery queue gets at most one reply, and gets it
\* only in a step that receives a reply whose message-id the queue is
\* registered under, which unregisters it; a reply with no message-id or
\* with one that has no queue changes no delivery queue and no
\* registration, and the loop goes on to its next round.
C20_ReplyRouting ==
    /\ [](\A q \in 1..Len(queues) : Len(queues[q]) <= 1)
    /\ [][\A q \in 1..Len(queues) :
            queues'[q] # queues[q] =>
                /\ Receives /\ Expected
                /\ delivery_queues[received'.message_id[1]] = q
                /\ delivery_queues'[received'.message_id[1]] = 0
                /\ queues'[q] = Append(queues[q], received')]_vars
    /\ [][(Receives /\ ~Expected) =>
            /\ queues' = queues
            /\ delivery_queues' = delivery_queues
            /\ run_pc' = "send"]_vars

\* C20 witness: one request was made and two replies were received; its
\* queue holds the one reply that had its message-id first, the other was
\* dropped, no queue is registered any more and the loop is in its next round
C20_Witness ==
    /\ replies_left = MaxReplies - 2
    /\ received.message_id # None
    /\ delivery_queues[received.message_id[1]] = 0
    /\ \E q \in 1..Len(queues) : queues[q] = <<received>>
    /\ Len(queues) = 1
    /\ run_pc = "send"

----------------------------------------------------------------------------
(* What the claims on the router's lock, caches and connection speak of *)

\* the tasks at work on the connection: a query, or close and replace
OnConnection == {t \in Tasks : pc[t] \in {"query", "reconnect"}}

\* C21: database access is serialized.  At most one task is in a query or in
\* the close and replace of the connection, and it holds the lock; the init
\* task makes its connection before any of them; a task that waits for the
\* lock does not hold it.
C21_SerializedAccess ==
    /\ Cardinality(OnConnection) <= 1
    /\ \A t \in OnConnection :
          dblock.owner = t /\ dblock.count >= 1 /\ init_complete
    /\ \A t \in Tasks : pc[t] = "acquire" => dblock.owner # t

\* C21 witness: one task is in its query and the other waits for the lock
C21_Witness ==
    \E t, u \in Tasks : pc[t] = "query" /\ pc[u] = "acquire"

\* C22: every write to the collection cache and to the cluster map is made
\* by a task that holds the lock at that moment
C22_WritesUnderLock == \A w \in cache_writes : w.locked

\* C23 as stated: a host list stored in the cluster map is a snapshot; what
\* the map holds for a cluster changes only when the entry is replaced by
\* another one
C23_ImmutableSnapshots ==
    [][\A cid \in DOMAIN known_clusters :
            heap'[known_clusters'[cid]] # heap[known_clusters[cid]]
                => known_clusters'[cid] # known_clusters[cid]]_vars

\* C23 amended: a host list stored in the cluster map is never replaced by
\* another one; every forward to the cluster rotates the stored deque in
\* place by one position (hosts.rotate(1)), and nothing else changes the
\* entry: its rows and the set of its hosts stay what they were
C23_RotatedInPlace ==
    [][\A cid \in DOMAIN known_clusters :
            LET ref == known_clusters[cid]
            IN /\ cid \in DOMAIN known_clusters'
               /\ known_clusters'[cid] = ref
               /\ heap'[ref].rows = heap[ref].rows
               /\ heap'[ref].hosts =
                     IF Len(fwd_log'[cid]) > Len(fwd_log[cid])
                     THEN Rotate1(heap[ref].hosts)
                     ELSE heap[ref].hosts]_vars

\* C23 witness: the entry of cluster 7 has been used twice and is not in the
\* order it was stored in
C23_Witness ==
    /\ 7 \in DOMAIN known_clusters
    /\ Len(fwd_log[7]) = 2
    /\ heap[known_clusters[7]].hosts # ClusterInfo(7).hosts
    /\ heap[known_clusters[7]].rows = ClusterInfo(7).rows

\* C24: a reconnect replaces only the connection that failed. A task that
\* is in its query or in its reconnect took conn_id from the connection that
\* is installed now; a task comes to its reconnect only from its own failed
\* query; and after init the router's connection is replaced only by a task
\* in its reconnect, so no connection is closed that has not failed a query
C24_ReplacesOnlyFailed ==
    /\ [](\A t \in OnConnection : conn_id[t] = conn)
    /\ [][\A t \in Tasks :
              pc'[t] = "reconnect" /\ pc[t] # "reconnect"
                  => /\ pc[t] = "query"
                     /\ conn_id[t] = conn
                     /\ conn' = conn
                     /\ "OperationalError" \in met'[t]]_vars
    /\ [][init_complete /\ conn' # conn
              => \E t \in Tasks :
                    /\ pc[t] = "reconnect"
                    /\ pc'[t] # "reconnect"
                    /\ conn_id[t] = conn
                    /\ conn' = conn + 1]_vars

\* C24 witness: both tasks met an OperationalError and the connection was
\* replaced twice since init() installed the first one
C24_Witness ==
    /\ \A t \in Tasks : "OperationalError" \in met[t]
    /\ init_complete
    /\ conn = 3

\* C25: no self-deadlock on the lock of the router. The lock is taken at
\* most twice, the second time by the task that has it, in
\* _db_cluster_for_collection under _cluster_for_collection; a task never
\* waits for a lock it holds; with concurrent calls and a database that
\* answers in the end every call returns, a task that returned holds no
\* lock, and the lock ends up free
C25_NoSelfDeadlock ==
    /\ [](/\ dblock.count <= 2
          /\ dblock.count = 2 =>
                /\ wrapper[dblock.owner] = "db_cluster_for_collection"
                /\ pc[dblock.owner] \in {"query", "reconnect", "sleep"}
          /\ \A t \in Tasks :
                /\ pc[t] = "acquire" => dblock.owner # t
                /\ pc[t] \in {"idle", "done"} => dblock.owner # t)
    /\ \A t \in Tasks : (pc[t] \notin {"idle", "done"}) ~> Done(t)
    /\ <>[](dblock = Unlocked)

\* C25 witness: a task holds the lock twice, in the query for its
\* collection, and the other task waits for the lock
C25_Witness ==
    \E t, u \in Tasks :
        /\ dblock = [owner |-> t, count |-> 2]
        /\ pc[t] = "query" /\ wrapper[t] = "db_cluster_for_collection"
        /\ pc[u] = "acquire"

\* C26: send liveness of the dealer client. Every message given to
\* queue_message_for_send is written to the socket by the loop in the end,
\* whether or not the replies to the messages before it arrive: the n-th
\* message queued becomes the n-th message sent
C26_SendLiveness ==
    \A n \in 1..MaxRequests : (Len(queues) >= n) ~> (Len(socket_sent) >= n)

====
